---- MODULE Spec2Model ----
(***************************************************************************)
(* A model of wty's dictionary pipeline (src/dict/core.rs), its record     *)
(* cache and release fan-out (src/dict/release.rs).                        *)
(*                                                                         *)
(* Seven specifications share the module:                                  *)
(*   Spec       a release run: cache population for every edition, the     *)
(*              barrier, then the fan-out of make_dict over the kinds,     *)
(*              editions and languages;                                    *)
(*   SpecCache  WiktextractDb::create called again and again on the same   *)
(*              persistent stores, line by line;                           *)
(*   SpecDict   one make_dict run (line-streaming or cache-backed), record *)
(*              by record;                                                 *)
(*   SpecDrain  the loop over the buckets of a make_dict run over three    *)
(*              editions;                                                  *)
(*   SpecIr     the transforms of src/dict/other.rs on one bucket: process,*)
(*              postprocess, to_yomitan;                                   *)
(*   SpecFetch  one store imported, then read by two cache-backed make_dict*)
(*              calls at once, row by row;                                 *)
(*   SpecIndex  the URLs and the index of src/dict/index.rs.               *)
(***************************************************************************)
EXTENDS Integers, Sequences, FiniteSets, TLC

VARIABLES
    \* ---- release run (release.rs) ----
    phase,      \* position of release(): "db", "dicts", "finished", "db_panicked", "dicts_panicked"
    calls,      \* calls[e]: calls of WiktextractDb::create for edition e so far
    lineLangs,  \* the language codes the records of the raw files carry
    db,         \* db[e]: committed rows of data/db/wiktextract_<e>.db, in rowid order
    tx,         \* tx[e]: rows inserted by the open transaction of import_jsonl
    cpc,        \* cpc[e]: position of WiktextractDb::create for edition e
    counted,    \* counted[e]: the COUNT(*) read by create (-1: not read in this run)
    rolledBack, \* rolledBack[e]: rows discarded by the rollback of a failed import
    stage,      \* stage[e]: position of the closure of release()'s second par_iter
    item,       \* item[<<kind, e, l>>]: state of one closure of a release_* loop
    \* ---- one make_dict run (core.rs:267-381, release.rs:343-433) ----
    dcfg,       \* the arguments: variant, kind, editions, source, target, reject, filter, first
    dpc,        \* position: "idle", "start", "open", "scan", "drain", "ok", "err", "panic"
    dleft,      \* editions iter_datasets has still to yield
    dcur,       \* the edition whose dataset is being scanned
    dread,      \* records read from the current dataset
    daccepted,  \* accepted_count of the current dataset
    irs_map,    \* the bucket map: LangsKey -> sequence of IR items
    produced,   \* produced[e]: IR items process has pushed for records of edition e
    dlast,      \* what the last loop iteration did with the record it read
    dwritten,   \* keys whose bucket was handed to write_yomitan
    dfrom,      \* dfrom[key]: lemma and edition of origin of every item the bucket received
    dcalls,     \* dcalls[key]: the calls the drain loop made for the bucket
    demitted,   \* demitted[key]: the entries to_yomitan returned for the bucket
    dio,        \* what the run has touched: "dirs", "dataset", "cache", "record"
    derr,       \* the step at which the run ended with Err or a panic
    \* ---- one bucket under the transforms (other.rs) ----
    xkind,      \* the kind of the bucket
    xirs,       \* the bucket
    xbefore,    \* the bucket before the last call
    xentry,     \* the record of the last process call
    xop,        \* the last call: "none", "process", "postprocess", "to_yomitan"
    xout,       \* the entries to_yomitan returned
    xused,      \* records (phonetic kinds) or translations (glossary kinds) fed so far
    \* ---- one store and the make_dict calls that read it (release.rs) ----
    fpc,        \* "idle", "import" (import_jsonl is running), "read" (it has committed)
    flines,     \* the records of the lines import_jsonl has read
    fstore,     \* the rows of the wiktextract table, in rowid order
    fw,         \* fw[w]: the make_dict call of worker w: state, selected language,
                \* rows fetched, its bucket map, the records it has handed to process
    fheap,      \* the bucket maps allocated so far: map -> (LangsKey -> IR items)
    \* ---- the index of one dictionary (index.rs) ----
    iname,      \* dict_name_expanded
    isource,    \* source
    itarget,    \* target
    iop,        \* the last call: "none", "download_url", "index_url", "get_index"
    iout        \* what it returned

relVars == <<phase, calls, lineLangs, db, tx, cpc, counted, rolledBack, stage, item>>

dictVars == <<dcfg, dpc, dleft, dcur, dread, daccepted, irs_map, produced, dlast, dwritten,
              dfrom, dcalls, demitted, dio, derr>>

irVars == <<xkind, xirs, xbefore, xentry, xop, xout, xused>>

fetchVars == <<fpc, flines, fstore, fw, fheap>>

indexVars == <<iname, isource, itarget, iop, iout>>

vars == <<relVars, dictVars, irVars, fetchVars, indexVars>>

(***************************************************************************)
(* Bounds.                                                                 *)
(***************************************************************************)
\* calls of create per edition (SpecCache)
MaxCalls == 3
\* rows one import stores before the file ends
MaxRows == 1
\* make_dict calls of one run that end with Err
MaxErrs == 1

(***************************************************************************)
(* Editions and languages: Edition::all() and Lang::all() cut down to two  *)
(* editions (one of them the Simple marker) and three languages.           *)
(***************************************************************************)
Simple == "simple"
Editions == {"en", Simple}
Langs == {"en", "de", Simple}

\* Lang::from(edition): an edition's own language carries the same code.
LangOf(e) == e

\* A line of the raw JSONL file: a WordEntry of some language, or malformed JSON.
Lines == [lang : lineLangs, json : {TRUE}] \cup {[lang |-> "", json |-> FALSE]}

\* A row of the wiktextract table; valid says whether the blob still decodes.
Row(l, v) == [lang |-> l, valid |-> v]

\* Stores found on disk when the program starts: none yet, or one written by an
\* earlier build (rows that decode, or rows whose layout has drifted).
InitStores == {<< >>, <<Row("de", TRUE)>>, <<Row("de", FALSE)>>}

(***************************************************************************)
(* WiktextractDb::create / import_jsonl                                    *)
(***************************************************************************)
NeedsImport_Always(count) == count >= 0

\* release.rs:297  if count == 0 { import } else { nothing }
NeedsImport(count) == count = 0

DbAfterRollback_Autocommit(e) == db[e] \o tx[e]

\* release.rs:313-325: the inserts run in a transaction; a `?` return drops it,
\* which rolls it back: the committed rows stay as they were.
DbAfterRollback(e) == db[e]

\* release.rs:322: the row is keyed by the record's own lang_code
ImportedRow(line) == Row(line.lang, TRUE)

CreatePending_Retry(e) == cpc[e] \in {"todo", "failed"}

\* release.rs:201, 215, 232: the first par_iter runs its closure once for each
\* element of Edition::all(), and the closure calls create once
CreatePending(e) == cpc[e] = "todo"

\* release.rs:269-305 up to the decision on the count
CreateCount(e) ==
    /\ phase = "db"
    /\ CreatePending(e)
    /\ calls' = [calls EXCEPT ![e] = calls[e] + 1]
    /\ counted' = [counted EXCEPT ![e] = Len(db[e])]
    /\ cpc' = [cpc EXCEPT ![e] = IF NeedsImport(Len(db[e])) THEN "import" ELSE "done"]
    /\ tx' = [tx EXCEPT ![e] = << >>]
    /\ UNCHANGED <<phase, lineLangs, db, rolledBack, stage, item, dictVars, irVars, fetchVars, indexVars>>

\* release.rs:317-323: one iteration of the loop over the file's lines
ImportLine(e) ==
    /\ cpc[e] = "import"
    /\ \E line \in Lines, io \in BOOLEAN :
        IF line.json /\ io
        THEN /\ Len(tx[e]) < MaxRows
             /\ tx' = [tx EXCEPT ![e] = Append(tx[e], ImportedRow(line))]
             /\ UNCHANGED <<db, cpc, rolledBack>>
        ELSE /\ db' = [db EXCEPT ![e] = DbAfterRollback(e)]
             /\ tx' = [tx EXCEPT ![e] = << >>]
             /\ rolledBack' = [rolledBack EXCEPT ![e] = Len(tx[e])]
             /\ cpc' = [cpc EXCEPT ![e] = "failed"]
    /\ UNCHANGED <<phase, calls, lineLangs, counted, stage, item, dictVars, irVars, fetchVars, indexVars>>

\* release.rs:325: end of file, tx.commit()
ImportCommit(e) ==
    /\ cpc[e] = "import"
    /\ db' = [db EXCEPT ![e] = db[e] \o tx[e]]
    /\ tx' = [tx EXCEPT ![e] = << >>]
    /\ cpc' = [cpc EXCEPT ![e] = "done"]
    /\ UNCHANGED <<phase, calls, lineLangs, counted, rolledBack, stage, item, dictVars, irVars, fetchVars, indexVars>>

(***************************************************************************)
(* release(): the two parallel loops over the editions                     *)
(***************************************************************************)
Kinds == {"main", "ipa", "ipa_merged", "glossary"}
LoopKinds == {"main", "ipa", "glossary"}

\* One closure of a release_* function: `l` is the loop's language (the source
\* for main and ipa, the target for glossary); release_ipa_merged has no loop.
ItemIds == (LoopKinds \X Editions \X Langs)
           \cup {<<"ipa_merged", e, LangOf(e)>> : e \in Editions}

ItemsOf(k, e) == {i \in ItemIds : i[1] = k /\ i[2] = e}

BarrierPassed_None == TRUE

\* release.rs:215-234: for_each returns once every closure has returned
BarrierPassed == \A e \in Editions : cpc[e] = "done"

\* release.rs:215-240
DbPhaseDone ==
    /\ phase = "db"
    /\ BarrierPassed
    /\ phase' = "dicts"
    /\ UNCHANGED <<calls, lineLangs, db, tx, cpc, counted, rolledBack, stage, item, dictVars, irVars, fetchVars, indexVars>>

\* release.rs:230-232: create's Err is unwrapped; the panic leaves for_each once
\* the closures in flight have returned
DbPhasePanic ==
    /\ phase = "db"
    /\ \E e \in Editions : cpc[e] = "failed"
    /\ \A e \in Editions : cpc[e] # "import"
    /\ phase' = "db_panicked"
    /\ UNCHANGED <<calls, lineLangs, db, tx, cpc, counted, rolledBack, stage, item, dictVars, irVars, fetchVars, indexVars>>

(***************************************************************************)
(* release_main / release_ipa / release_ipa_merged / release_glossary      *)
(***************************************************************************)
\* release.rs:48  .num_threads(2)
NumThreads == 2

SkipMain_AnySimple(e, l) == e = Simple \/ l = Simple

\* release.rs:56-70: (Simple, Simple) runs, any other pair with Simple returns
SkipMain(e, l) == ~(e = Simple /\ l = Simple) /\ (e = Simple \/ l = Simple)

\* release.rs:94-104
SkipIpa(e, l) == ~(e = Simple /\ l = Simple) /\ (e = Simple \/ l = Simple)

\* release.rs:126-131
SkipIpaMerged(e) == e = Simple

SkipGlossary_NoSelfRule(e, l) == e = Simple \/ l = Simple

\* release.rs:154-161
SkipGlossary(e, l) == e = Simple \/ l = Simple \/ LangOf(e) = l

Skips(i) ==
    CASE i[1] = "main" -> SkipMain(i[2], i[3])
      [] i[1] = "ipa" -> SkipIpa(i[2], i[3])
      [] i[1] = "ipa_merged" -> SkipIpaMerged(i[2])
      [] i[1] = "glossary" -> SkipGlossary(i[2], i[3])

\* release.rs:45-52: every call of release_main builds a pool of its own and
\* installs the loop over the languages in it; the other loops run in the
\* global pool.
PoolHasIdleThread(i) ==
    i[1] = "main" =>
        Cardinality({j \in ItemsOf("main", i[2]) : item[j] = "running"}) < NumThreads

\* release.rs:354 iter_datasets(pm): the editions whose stores one make_dict
\* opens: the edition of the arguments, every edition for the merged kind.
ReadEditions(i) == IF i[1] = "ipa_merged" THEN Editions ELSE {i[2]}

\* release.rs:372-381: the language of the SELECT: the source when the edition
\* is the target (main, ipa), the target when it is the source.
SelectedLang(i) == IF i[1] = "ipa_merged" THEN LangOf(i[2]) ELSE i[3]

\* release.rs:334-340, 385: a blob that does not decode: rkyv's Err is unwrapped
HitsBadBlob(i) ==
    \E d \in ReadEditions(i) : \E n \in 1..Len(db[d]) :
        db[d][n].lang = SelectedLang(i) /\ ~db[d][n].valid

\* release.rs:343-433: how a make_dict call can end: Err (any `?`), a panic at
\* the first blob that does not decode, Ok when every selected blob decodes.
Outcomes(i) ==
    (IF Cardinality({j \in ItemIds : item[j] = "err"}) < MaxErrs THEN {"err"} ELSE {})
    \cup (IF HitsBadBlob(i) THEN {"panic"} ELSE {"ok"})

NextStage(s) ==
    CASE s = "wait" -> "main"
      [] s = "main" -> "ipa"
      [] s = "ipa" -> "ipa_merged"
      [] s = "ipa_merged" -> "glossary"
      [] s = "glossary" -> "done"

\* release.rs:240-241: a closure of the second par_iter starts
EditionStart(e) ==
    /\ phase = "dicts"
    /\ stage[e] = "wait"
    /\ stage' = [stage EXCEPT ![e] = NextStage("wait")]
    /\ UNCHANGED <<phase, calls, lineLangs, db, tx, cpc, counted, rolledBack, item, dictVars, irVars, fetchVars, indexVars>>

\* release.rs:61, 99, 127, 155-156: the closure returns before make_dict
ItemSkip(i) ==
    /\ phase = "dicts"
    /\ stage[i[2]] = i[1]
    /\ item[i] = "todo"
    /\ Skips(i)
    /\ item' = [item EXCEPT ![i] = "skipped"]
    /\ UNCHANGED <<phase, calls, lineLangs, db, tx, cpc, counted, rolledBack, stage, dictVars, irVars, fetchVars, indexVars>>

\* release.rs:82, 116, 143, 173: make_dict is called
ItemStart(i) ==
    /\ phase = "dicts"
    /\ stage[i[2]] = i[1]
    /\ item[i] = "todo"
    /\ ~Skips(i)
    /\ PoolHasIdleThread(i)
    /\ item' = [item EXCEPT ![i] = "running"]
    /\ UNCHANGED <<phase, calls, lineLangs, db, tx, cpc, counted, rolledBack, stage, dictVars, irVars, fetchVars, indexVars>>

\* release.rs:82-85 (and 116-119, 143-147, 173-177): make_dict ends; Ok is
\* passed to pp, Err is logged with tracing::error!, a panic unwinds.
ItemFinish(i) ==
    /\ item[i] = "running"
    /\ \E out \in Outcomes(i) : item' = [item EXCEPT ![i] = out]
    /\ UNCHANGED <<phase, calls, lineLangs, db, tx, cpc, counted, rolledBack, stage, dictVars, irVars, fetchVars, indexVars>>

Finished(i) == item[i] \in {"skipped", "ok", "err"}

\* release.rs:241-244: a release_* call returns, the next one starts
StageNext(e) ==
    /\ stage[e] \in Kinds
    /\ \A i \in ItemsOf(stage[e], e) : Finished(i)
    /\ stage' = [stage EXCEPT ![e] = NextStage(stage[e])]
    /\ UNCHANGED <<phase, calls, lineLangs, db, tx, cpc, counted, rolledBack, item, dictVars, irVars, fetchVars, indexVars>>

\* A panic inside a loop's closure: rayon lets the closures in flight end, may
\* or may not run the ones not started, and resumes the panic in the caller,
\* which skips the release_* calls that follow for this edition.
StageUnwind(e) ==
    /\ stage[e] \in Kinds
    /\ \E i \in ItemsOf(stage[e], e) : item[i] = "panic"
    /\ \A i \in ItemsOf(stage[e], e) : item[i] # "running"
    /\ stage' = [stage EXCEPT ![e] = "unwound"]
    /\ UNCHANGED <<phase, calls, lineLangs, db, tx, cpc, counted, rolledBack, item, dictVars, irVars, fetchVars, indexVars>>

\* release.rs:245-250
ReleaseOk ==
    /\ phase = "dicts"
    /\ \A e \in Editions : stage[e] = "done"
    /\ phase' = "finished"
    /\ UNCHANGED <<calls, lineLangs, db, tx, cpc, counted, rolledBack, stage, item, dictVars, irVars, fetchVars, indexVars>>

\* release.rs:240-245: the panic of one edition's closure leaves for_each, and
\* release with it, once no closure is running.
ReleasePanic ==
    /\ phase = "dicts"
    /\ \E e \in Editions : stage[e] = "unwound"
    /\ \A e \in Editions : stage[e] \in {"wait", "done", "unwound"}
    /\ phase' = "dicts_panicked"
    /\ UNCHANGED <<calls, lineLangs, db, tx, cpc, counted, rolledBack, stage, item, dictVars, irVars, fetchVars, indexVars>>

Over == phase \in {"finished", "db_panicked", "dicts_panicked"}

\* A later call of create for the same edition (a later run of the program):
\* only the store persists.
CreateAgain(e) ==
    /\ cpc[e] \in {"done", "failed"}
    /\ calls[e] < MaxCalls
    /\ cpc' = [cpc EXCEPT ![e] = "todo"]
    /\ counted' = [counted EXCEPT ![e] = -1]
    /\ rolledBack' = [rolledBack EXCEPT ![e] = 0]
    /\ UNCHANGED <<phase, calls, lineLangs, db, tx, stage, item, dictVars, irVars, fetchVars, indexVars>>

InitRel ==
    /\ phase = "db"
    /\ calls = [e \in Editions |-> 0]
    /\ db \in [Editions -> InitStores]
    /\ tx = [e \in Editions |-> << >>]
    /\ cpc = [e \in Editions |-> "todo"]
    /\ counted = [e \in Editions |-> -1]
    /\ rolledBack = [e \in Editions |-> 0]
    /\ stage = [e \in Editions |-> "wait"]
    /\ item = [i \in ItemIds |-> "todo"]

(***************************************************************************)
(* The records and the kinds' transforms (other.rs)                        *)
(***************************************************************************)
\* The head words and translation words of the model, in the ascending order
\* of String::cmp
WordOrder == <<"a", "b">>

Words == {WordOrder[n] : n \in 1..Len(WordOrder)}

\* A translation cross-reference of a record; sense "" is the empty label
Tr(l, s, w) == [lang_code |-> l, sense |-> s, word |-> w]

\* A WordEntry, cut down to the fields the global filter reads (word, pos), to
\* what the kind's keep_if answers for it (k), to whether DMain derives an IR
\* item from it (c), and to what the transforms of other.rs read: the reading
\* that resolves ("" when none does), the transcriptions and the non-trivial
\* translations.
WordEntry(w, p, k, c, r, ipas, trs) ==
    [word |-> w, pos |-> p, k |-> k, c |-> c, reading |-> r, ipas |-> ipas,
     translations |-> trs]

RECURSIVE Concat(_)
\* the concatenation of a sequence of sequences
Concat(ss) == IF ss = << >> THEN << >> ELSE Head(ss) \o Concat(Tail(ss))

RECURSIVE Orderings(_)
\* Every order in which the entries of a crate::Map can be iterated: the type
\* behind crate::Map fixes one of them.
Orderings(S) ==
    IF S = {} THEN {<< >>}
    ELSE UNION {{<<x>> \o s : s \in Orderings(S \ {x})} : x \in S}

Range(s) == {s[n] : n \in 1..Len(s)}

\* dict::get_ipas(word_entry)
get_ipas(entry) == entry.ipas

\* dict::get_reading(edition, lang, word_entry): None is ""
get_reading(edition, lang, entry) == entry.reading

\* other.rs:224, 333-334  get_reading(..).unwrap_or_else(|| word.clone())
ReadingOrWord(edition, lang, entry) ==
    IF get_reading(edition, lang, entry) = "" THEN entry.word
    ELSE get_reading(edition, lang, entry)

\* tags::find_short_pos(pos): the short form of a part of speech, "" for None
find_short_pos(pos) == IF pos = "n" THEN "noun" ELSE ""

\* other.rs:225-228, 278-281
found_pos(entry) ==
    IF find_short_pos(entry.pos) = "" THEN entry.pos ELSE find_short_pos(entry.pos)

\* the words of the translations of one language under one sense, in input order
WordsOf(trs, lang, sense) ==
    LET sel == SelectSeq(trs, LAMBDA t : t.lang_code = lang /\ t.sense = sense)
    IN  [n \in 1..Len(sel) |-> sel[n].word]

\* the sense labels of the translations of one language
SensesOf(trs, lang) == {t.sense : t \in {u \in Range(trs) : u.lang_code = lang}}

\* models::yomitan: DetailedDefinition::Text and ::structured(div(span, ul(li*)))
TextDef(w) == [type |-> "text", text |-> w, sense |-> "", list |-> << >>]

StructuredDef(s, ws) == [type |-> "structured", text |-> "", sense |-> s, list |-> ws]

\* models::yomitan: TermBank(term, reading, definition tags, rules, definitions)
TermBank(term, reading, tags, rules, defs) ==
    [type |-> "term", term |-> term, reading |-> reading, tags |-> tags,
     rules |-> rules, definitions |-> defs]

GlossaryDefs_Flat(trs, target, sense) ==
    LET ws == WordsOf(trs, target, sense)
    IN  [n \in 1..Len(ws) |-> TextDef(ws[n])]

\* other.rs:196-221: the definitions of one sense group
GlossaryDefs(trs, target, sense) ==
    LET ws == WordsOf(trs, target, sense)
    IN  IF sense = "" THEN [n \in 1..Len(ws) |-> TextDef(ws[n])]
        ELSE <<StructuredDef(sense, ws)>>

process_glossary_AnyLang(edition, target, entry) ==
    {<<TermBank(entry.word, ReadingOrWord(edition, target, entry),
                found_pos(entry), found_pos(entry),
                [n \in 1..Len(entry.translations) |->
                    TextDef(entry.translations[n].word)])>>}

\* other.rs:164-238: what process_glossary appends, for every order in which
\* the map of the senses can be iterated
process_glossary(edition, target, entry) ==
    LET trs == entry.translations
        senses == SensesOf(trs, target)
    IN  IF senses = {} THEN {<< >>}
        ELSE {<<TermBank(entry.word, ReadingOrWord(edition, target, entry),
                         found_pos(entry), found_pos(entry),
                         Concat([n \in 1..Len(o) |-> GlossaryDefs(trs, target, o[n])]))>>
              : o \in Orderings(senses)}

\* IGlossaryExtended = (lemma, pos, edition, translations)
IGlossaryExtended(lemma, pos, edition, trs) ==
    [lemma |-> lemma, pos |-> pos, edition |-> edition, translations |-> trs]

\* other.rs:293-299: the items of one retained sense: translations.0 holds the
\* words whose lang_code is the target, translations.1 those of the source; the
\* loop takes every word of .1 as lemma and the whole of .0 as definitions
SemiProduct(edition, source, target, entry, sense) ==
    LET targets == WordsOf(entry.translations, target, sense)
        sources == WordsOf(entry.translations, source, sense)
    IN  [n \in 1..Len(sources) |->
            IGlossaryExtended(sources[n], found_pos(entry), edition, targets)]

\* other.rs:252-272: the senses with a word on both sides
RetainedSenses(source, target, entry) ==
    {s \in SensesOf(entry.translations, target) \cup SensesOf(entry.translations, source) :
        /\ WordsOf(entry.translations, target, s) # << >>
        /\ WordsOf(entry.translations, source, s) # << >>}

\* other.rs:242-302
process_glossary_extended(edition, source, target, entry) ==
    {Concat([n \in 1..Len(o) |-> SemiProduct(edition, source, target, entry, o[n])])
     : o \in Orderings(RetainedSenses(source, target, entry))}

\* IIpa = (lemma, PhoneticTranscription { reading, transcriptions })
IIpa(lemma, reading, ipas) == [lemma |-> lemma, reading |-> reading, ipas |-> ipas]

process_ipa_NoCheck(edition, source, entry) ==
    {<<IIpa(entry.word, ReadingOrWord(edition, source, entry), get_ipas(entry))>>}

\* other.rs:325-339
process_ipa(edition, source, entry) ==
    IF get_ipas(entry) = << >> THEN {<< >>}
    ELSE {<<IIpa(entry.word, ReadingOrWord(edition, source, entry), get_ipas(entry))>>}

\* DMain::process: one item for a record that holds something to show
process_main(entry) == IF entry.c THEN {<<[lemma |-> entry.word]>>} ELSE {<< >>}

\* core.rs:103 with other.rs:31-40, 58-67, 103-112, 130-139: the sequences of IR
\* items the kind's process can append for one record
process(kind, langs, entry) ==
    CASE kind \in {"ipa", "ipa_merged"} ->
            process_ipa(langs.edition, langs.source, entry)
      [] kind = "glossary" ->
            process_glossary(langs.edition, langs.target, entry)
      [] kind = "glossary_extended" ->
            process_glossary_extended(langs.edition, langs.source, langs.target, entry)
      [] kind = "main" -> process_main(entry)

sort_by_Unsorted(irs) == irs

sort_by_Unstable(irs) ==
    Concat([n \in 1..Len(WordOrder) |->
               LET ties == SelectSeq(irs, LAMBDA it : it.lemma = WordOrder[n])
               IN  [k \in 1..Len(ties) |-> ties[Len(ties) + 1 - k]]])

\* other.rs:148  irs.sort_by(|a, b| a.0.cmp(&b.0)): a stable sort on the lemma
sort_by(irs) ==
    Concat([n \in 1..Len(WordOrder) |->
               SelectSeq(irs, LAMBDA it : it.lemma = WordOrder[n])])

RECURSIVE Seen(_)
\* crate::Set: insert and extend keep the first of equal elements, into_iter
\* yields the elements in the order they were inserted
Seen(irs) ==
    IF irs = << >> THEN << >>
    ELSE LET front == Seen(SubSeq(irs, 1, Len(irs) - 1))
             last == irs[Len(irs)]
         IN  IF last \in Range(front) THEN front ELSE Append(front, last)

Dedup_Keep(irs) == {irs}

\* other.rs:144-146: the items go through the Set `seen` and come back in its
\* order
Dedup(irs) == {Seen(irs)}

\* other.rs:141-149  DIpaMerged::postprocess
postprocess_ipa_merged(irs) == {sort_by(s) : s \in Dedup(irs)}

Lemmas(irs) == {it.lemma : it \in Range(irs)}

FirstOf_Last(irs, lemma) == irs[CHOOSE n \in 1..Len(irs) :
                                   /\ irs[n].lemma = lemma
                                   /\ \A m \in (n + 1)..Len(irs) : irs[m].lemma # lemma]

\* other.rs:73-75: or_insert_with keeps the pos and edition of the first item
FirstOf(irs, lemma) == irs[CHOOSE n \in 1..Len(irs) :
                              /\ irs[n].lemma = lemma
                              /\ \A m \in 1..(n - 1) : irs[m].lemma # lemma]

\* other.rs:77-79: the translations of every item of the lemma, inserted into
\* the lemma's Set item after item
TranslationSet(irs, lemma) ==
    Seen(Concat([n \in 1..Len(irs) |->
                    IF irs[n].lemma = lemma THEN irs[n].translations ELSE << >>]))

MergedTranslations_Concat(irs, lemma) ==
    {Concat([n \in 1..Len(irs) |->
                IF irs[n].lemma = lemma THEN irs[n].translations ELSE << >>])}

\* other.rs:83  set.into_iter().collect(): the Set in its iteration order
MergedTranslations(irs, lemma) == {TranslationSet(irs, lemma)}

\* other.rs:69-85  DGlossaryExtended::postprocess: one item per lemma, in the
\* order of the Map, each with the Set of its translations
postprocess_glossary_extended(irs) ==
    LET ls == Lemmas(irs)
        choices == [l \in ls |-> MergedTranslations(irs, l)]
        picks == {f \in [ls -> UNION {choices[l] : l \in ls}] :
                     \A l \in ls : f[l] \in choices[l]}
    IN  {[n \in 1..Len(o) |->
             IGlossaryExtended(o[n], FirstOf(irs, o[n]).pos,
                               FirstOf(irs, o[n]).edition, f[o[n]])]
         : o \in Orderings(ls), f \in picks}

\* core.rs:125 with other.rs:69-85, 141-149: the buckets postprocess can leave
postprocess(kind, irs) ==
    CASE kind = "ipa_merged" -> postprocess_ipa_merged(irs)
      [] kind = "glossary_extended" -> postprocess_glossary_extended(irs)
      [] OTHER -> {irs}

\* other.rs:304-321
to_yomitan_glossary_extended(irs) ==
    [n \in 1..Len(irs) |->
        TermBank(irs[n].lemma, "", irs[n].pos, irs[n].pos,
                 [m \in 1..Len(irs[n].translations) |-> TextDef(irs[n].translations[m])])]

\* other.rs:341-349: TermBankMeta::TermPhoneticTranscription(lemma, "ipa", ..)
to_yomitan_ipa(irs) ==
    [n \in 1..Len(irs) |->
        [type |-> "meta", term |-> irs[n].lemma, mode |-> "ipa",
         reading |-> irs[n].reading, ipas |-> irs[n].ipas]]

\* DMain::to_yomitan: a term entry per item
to_yomitan_main(irs) ==
    [n \in 1..Len(irs) |-> TermBank(irs[n].lemma, irs[n].lemma, "", "", << >>)]

\* core.rs:128 with other.rs:42-52, 87-97, 114-124, 151-161: the entries of the
\* one label ("term") the kinds of other.rs emit
to_yomitan(kind, irs) ==
    CASE kind \in {"ipa", "ipa_merged"} -> to_yomitan_ipa(irs)
      [] kind = "glossary" -> irs
      [] kind = "glossary_extended" -> to_yomitan_glossary_extended(irs)
      [] kind = "main" -> to_yomitan_main(irs)

\* the lemma of an IR item: the term of the entry for the kinds whose IR is the
\* output entry
LemmaOf(it) == IF "lemma" \in DOMAIN it THEN it.lemma ELSE it.term

(***************************************************************************)
(* make_dict: the pipeline run                                             *)
(***************************************************************************)
\* records one dataset yields before it ends
MaxRecs == 2

DictKinds == {"main", "ipa", "ipa_merged", "glossary", "glossary_extended"}

\* The records of the datasets of a run: a record either holds nothing the
\* kinds transform, or one transcription and one translation of its head word
\* into each language of the run.
Records ==
    {WordEntry(w, p, k, c, "",
               IF c THEN <<"i">> ELSE << >>,
               IF c THEN <<Tr("en", "X", w), Tr("de", "X", w)>> ELSE << >>)
     : w \in Words, p \in {"n", "v"}, k \in BOOLEAN, c \in BOOLEAN}

NoRecord == WordEntry("", "", FALSE, FALSE, "", << >>, << >>)

\* What one loop iteration did: the record it read, whether keep_if, preprocess
\* and process were called with it, and whether the bucket map was written.
Log(r, seen, kept, processed, touched) ==
    [rec |-> r, seen |-> seen, keepCalled |-> kept, processed |-> processed,
     touched |-> touched]

NoLog == Log(NoRecord, FALSE, FALSE, FALSE, FALSE)

\* core.rs:131-134
rejected(entry, opts) ==
    \/ \E r \in opts.reject : entry[r[1]] = r[2]
    \/ ~(\A f \in opts.filter : entry[f[1]] = f[2])

\* core.rs:91-92: the kind's predicate, a pure function of the source language
\* and the record
keep_if(kind, source, entry) == entry.k

Merging(kind) == kind \in {"ipa_merged", "glossary_extended"}

langs_to_key_NoCollapse(kind, langs) ==
    [edition |-> langs.edition, source |-> langs.source, target |-> langs.target]

langs_to_key_AllCollapse(kind, langs) ==
    [edition |-> "all", source |-> langs.source, target |-> langs.target]

\* core.rs:148-182: the default key keeps the edition; DIpaMerged and
\* DGlossaryExtended collapse it to EditionSpec::All
langs_to_key(kind, langs) ==
    [edition |-> IF Merging(kind) THEN "all" ELSE langs.edition,
     source |-> langs.source, target |-> langs.target]

\* core.rs:321 / release.rs:390: irs_map.entry(key).or_default()
Bucket(key) == IF key \in DOMAIN irs_map THEN irs_map[key] ELSE << >>

\* the records of the items a bucket has received: their lemma and the edition
\* of the record they were derived from
From(key) == IF key \in DOMAIN dfrom THEN dfrom[key] ELSE << >>

\* core.rs:313-317 / release.rs:366-370
CurLangs == [edition |-> dcur, source |-> dcfg.source, target |-> dcfg.target]

\* core.rs:320-323 / release.rs:389-392: key, bucket, preprocess, process
Transform(entry) ==
    LET key == langs_to_key(dcfg.kind, CurLangs)
    IN  \E new \in process(dcfg.kind, CurLangs, entry) :
            /\ irs_map' = (key :> (Bucket(key) \o new)) @@ irs_map
            /\ dfrom' = (key :> (From(key) \o
                            [n \in 1..Len(new) |->
                                [lemma |-> LemmaOf(new[n]), edition |-> dcur]]))
                        @@ dfrom
            /\ produced' = [produced EXCEPT ![dcur] = produced[dcur] + Len(new)]

\* core.rs:267-272 / release.rs:343-347: the arguments convert to a
\* PathManager or not, then setup_dirs
DStart ==
    /\ dpc = "start"
    /\ \E conv \in BOOLEAN, dirs \in BOOLEAN :
        IF ~conv THEN
            /\ dpc' = "err"
            /\ derr' = "config"
            /\ UNCHANGED dio
        ELSE IF ~dirs THEN
            /\ dpc' = "err"
            /\ derr' = "dirs"
            /\ UNCHANGED dio
        ELSE
            /\ dpc' = "open"
            /\ dio' = dio \cup {"dirs"}
            /\ UNCHANGED derr
    /\ UNCHANGED <<dcfg, dleft, dcur, dread, daccepted, irs_map, produced, dlast, dwritten>>
    /\ UNCHANGED <<dfrom, dcalls, demitted>>
    /\ UNCHANGED <<relVars, irVars, fetchVars, indexVars>>

\* core.rs:279-286 / release.rs:354-381: iter_datasets yields the next edition;
\* its file (its store) is opened. The cache-backed make_dict then panics on a
\* source of LangSpec::All, and on DGlossaryExtended::edition_is, a todo!().
DOpen ==
    /\ dpc = "open"
    /\ dleft # << >>
    /\ \E found \in BOOLEAN, opened \in BOOLEAN :
        IF ~found THEN
            /\ dpc' = "err"
            /\ derr' = "dataset"
            /\ UNCHANGED <<dleft, dcur, dread, daccepted, dio>>
        ELSE IF ~opened THEN
            /\ dpc' = "err"
            /\ derr' = "open"
            /\ dio' = dio \cup {"dataset"}
            /\ UNCHANGED <<dleft, dcur, dread, daccepted>>
        ELSE IF dcfg.variant = "cache" /\ dcfg.source = "all" THEN
            /\ dpc' = "panic"
            /\ derr' = "all"
            /\ dio' = dio \cup {"dataset", "cache"}
            /\ UNCHANGED <<dleft, dcur, dread, daccepted>>
        ELSE IF dcfg.variant = "cache" /\ dcfg.kind = "glossary_extended" THEN
            /\ dpc' = "panic"
            /\ derr' = "todo"
            /\ dio' = dio \cup {"dataset", "cache"}
            /\ UNCHANGED <<dleft, dcur, dread, daccepted>>
        ELSE
            /\ dpc' = "scan"
            /\ dcur' = Head(dleft)
            /\ dleft' = Tail(dleft)
            /\ dread' = 0
            /\ daccepted' = 0
            /\ dio' = dio \cup (IF dcfg.variant = "cache" THEN {"dataset", "cache"}
                                ELSE {"dataset"})
            /\ UNCHANGED derr
    /\ UNCHANGED <<dcfg, irs_map, produced, dlast, dwritten>>
    /\ UNCHANGED <<dfrom, dcalls, demitted>>
    /\ UNCHANGED <<relVars, irVars, fetchVars, indexVars>>

OnDecodeError_Skip == "scan"

\* core.rs:296-297  serde_json::from_slice(&line).with_context(..)?: the Err
\* leaves the loops and make_dict
OnDecodeError == "err"

LimitReached_Late(accepted_count) == accepted_count = dcfg.first + 1

\* core.rs:308-311  accepted_count += 1; if accepted_count == opts.first { break }
LimitReached(accepted_count) == accepted_count = dcfg.first

\* core.rs:288-325: one iteration of the loop over the lines of the file
DScanStream ==
    /\ dpc = "scan"
    /\ dcfg.variant = "stream"
    /\ dread < MaxRecs
    /\ dread' = dread + 1
    /\ dio' = dio \cup {"record"}
    /\ \E entry \in Records, json \in BOOLEAN :
        IF ~json THEN
            /\ dpc' = OnDecodeError
            /\ derr' = "decode"
            /\ dlast' = NoLog
            /\ UNCHANGED <<daccepted, irs_map, produced, dfrom>>
        ELSE IF rejected(entry, dcfg) THEN
            /\ dlast' = Log(entry, TRUE, FALSE, FALSE, FALSE)
            /\ UNCHANGED <<dpc, derr, daccepted, irs_map, produced, dfrom>>
        ELSE IF LimitReached(daccepted + 1) THEN
            /\ daccepted' = daccepted + 1
            /\ dpc' = "open"
            /\ dlast' = Log(entry, TRUE, FALSE, FALSE, FALSE)
            /\ UNCHANGED <<derr, irs_map, produced, dfrom>>
        ELSE IF keep_if(dcfg.kind, dcfg.source, entry) THEN
            /\ daccepted' = daccepted + 1
            /\ Transform(entry)
            /\ dlast' = Log(entry, TRUE, TRUE, TRUE, TRUE)
            /\ UNCHANGED <<dpc, derr>>
        ELSE
            /\ daccepted' = daccepted + 1
            /\ dlast' = Log(entry, TRUE, TRUE, FALSE, FALSE)
            /\ UNCHANGED <<dpc, derr, irs_map, produced, dfrom>>
    /\ UNCHANGED <<dcfg, dleft, dcur, dwritten, dcalls, demitted>>
    /\ UNCHANGED <<relVars, irVars, fetchVars, indexVars>>

\* release.rs:383-393: one iteration of the loop over the selected rows
DScanCache ==
    /\ dpc = "scan"
    /\ dcfg.variant = "cache"
    /\ dread < MaxRecs
    /\ dread' = dread + 1
    /\ dio' = dio \cup {"record"}
    /\ \E entry \in Records, decodes \in BOOLEAN :
        IF ~decodes THEN
            /\ dpc' = "panic"
            /\ derr' = "blob"
            /\ dlast' = NoLog
            /\ UNCHANGED <<irs_map, produced, dfrom>>
        ELSE
            /\ Transform(entry)
            /\ dlast' = Log(entry, TRUE, FALSE, TRUE, TRUE)
            /\ UNCHANGED <<dpc, derr>>
    /\ UNCHANGED <<dcfg, dleft, dcur, daccepted, dwritten, dcalls, demitted>>
    /\ UNCHANGED <<relVars, irVars, fetchVars, indexVars>>

\* core.rs:290-292 / release.rs:383: the file (the result set) has ended
DEof ==
    /\ dpc = "scan"
    /\ dpc' = "open"
    /\ dlast' = NoLog
    /\ UNCHANGED <<dcfg, dleft, dcur, dread, daccepted, irs_map, produced, dwritten>>
    /\ UNCHANGED <<dfrom, dcalls, demitted, dio, derr>>
    /\ UNCHANGED <<relVars, irVars, fetchVars, indexVars>>

\* core.rs:279, 338-342 / release.rs:354, 396-400: no dataset is left
DScanned ==
    /\ dpc = "open"
    /\ dleft = << >>
    /\ dpc' = "drain"
    /\ UNCHANGED <<dcfg, dleft, dcur, dread, daccepted, irs_map, produced, dlast, dwritten>>
    /\ UNCHANGED <<dfrom, dcalls, demitted, dio, derr>>
    /\ UNCHANGED <<relVars, irVars, fetchVars, indexVars>>

OnWriteError_Continue == "drain"

\* core.rs:376 / release.rs:429  write_yomitan(..)?: the Err leaves the loop
\* over the buckets and make_dict
OnWriteError == "err"

Without_Keep(key) == irs_map

\* core.rs:342 / release.rs:400  for (key, mut irs) in irs_map: the loop owns
\* the bucket it visits, the map no longer holds it
Without(key) == [k \in DOMAIN irs_map \ {key} |-> irs_map[k]]

is_empty_Never(irs) == FALSE

\* core.rs:49-51  Intermediate::is_empty
is_empty(irs) == Len(irs) = 0

\* the calls the drain loop has made for a bucket so far
Calls(key) == IF key \in DOMAIN dcalls THEN dcalls[key] ELSE << >>

\* core.rs:342-378 / release.rs:400-431: one bucket leaves the map: skipped
\* when empty, else post-processed and, unless skip_yomitan is set, given its
\* directories (which may fail), converted and written (which may fail)
DDrain ==
    /\ dpc = "drain"
    /\ \E key \in DOMAIN irs_map, dirs \in BOOLEAN, ok \in BOOLEAN :
        /\ irs_map' = Without(key)
        /\ IF is_empty(irs_map[key]) THEN
               /\ dcalls' = (key :> Calls(key)) @@ dcalls
               /\ UNCHANGED <<dpc, derr, dwritten, demitted>>
           ELSE \E tidy \in postprocess(dcfg.kind, irs_map[key]) :
               IF dcfg.skip_yomitan THEN
                   /\ dcalls' = (key :> Append(Calls(key), "postprocess")) @@ dcalls
                   /\ UNCHANGED <<dpc, derr, dwritten, demitted>>
               ELSE IF ~dirs THEN
                   /\ dcalls' = (key :> Append(Calls(key), "postprocess")) @@ dcalls
                   /\ dpc' = "err"
                   /\ derr' = "out_dirs"
                   /\ UNCHANGED <<dwritten, demitted>>
               ELSE
                   /\ dcalls' = (key :> (Calls(key) \o
                                    <<"postprocess", "to_yomitan", "write_yomitan">>))
                                 @@ dcalls
                   /\ demitted' = (key :> to_yomitan(dcfg.kind, tidy)) @@ demitted
                   /\ IF ok THEN /\ dwritten' = dwritten \cup {key}
                                 /\ UNCHANGED <<dpc, derr>>
                      ELSE /\ dpc' = OnWriteError
                           /\ derr' = "write"
                           /\ UNCHANGED dwritten
    /\ UNCHANGED <<dcfg, dleft, dcur, dread, daccepted, produced, dlast, dfrom, dio>>
    /\ UNCHANGED <<relVars, irVars, fetchVars, indexVars>>

\* core.rs:380 / release.rs:432
DFinish ==
    /\ dpc = "drain"
    /\ DOMAIN irs_map = {}
    /\ dpc' = "ok"
    /\ UNCHANGED <<dcfg, dleft, dcur, dread, daccepted, irs_map, produced, dlast, dwritten>>
    /\ UNCHANGED <<dfrom, dcalls, demitted, dio, derr>>
    /\ UNCHANGED <<relVars, irVars, fetchVars, indexVars>>

\* The reject and filter rules of the options: (field, value) pairs
RejectSets == {{}, {<<"pos", "n">>}}
FilterSets == {{}, {<<"word", "a">>}}

\* The arguments of a run: EditionSpec::One(en) or EditionSpec::All, a source
\* language or LangSpec::All (which only the cache-backed make_dict examines),
\* the options reject, filter, first (which only the line-streaming make_dict
\* reads) and skip_yomitan; save_temps is unset.  The cache-backed make_dict
\* reads neither reject nor filter, so they vary there for one edition only.
Configs ==
    {c \in [variant : {"stream", "cache"}, kind : DictKinds,
            editions : {<<"en">>, <<"en", Simple>>},
            source : {"de", "all"}, target : {"en"},
            reject : RejectSets, filter : FilterSets, first : {0, 1, 2},
            skip_yomitan : BOOLEAN] :
        /\ c.source = "all" => c.variant = "cache"
        /\ c.variant = "cache" => c.first = 0
        /\ c.filter # {} => c.reject = {}
        /\ (c.variant = "cache" /\ Len(c.editions) > 1) => (c.reject = {} /\ c.filter = {})
        /\ c.first = 1 => (c.reject = {} /\ c.filter = {})
        /\ (c.source = "all" \/ c.skip_yomitan) =>
              (c.reject = {} /\ c.filter = {} /\ c.first = 0)}

NoKeys == [k \in {} |-> << >>]

IrIdle ==
    /\ xkind = "none"
    /\ xirs = << >>
    /\ xbefore = << >>
    /\ xentry = NoRecord
    /\ xop = "idle"
    /\ xout = << >>
    /\ xused = 0

\* a worker that has not called make_dict
NoCall == [state |-> "idle", lang |-> "", pos |-> 0, map |-> << >>, got |-> << >>]

FetchWorkers == {"w1", "w2"}

FetchIdle ==
    /\ fpc = "idle"
    /\ flines = << >>
    /\ fstore = << >>
    /\ fw = [w \in FetchWorkers |-> NoCall]
    /\ fheap = NoKeys

IndexIdle ==
    /\ iname = ""
    /\ isource = ""
    /\ itarget = ""
    /\ iop = "idle"
    /\ iout = << >>

DictIdle ==
    /\ dcfg = [variant |-> "none"]
    /\ dpc = "idle"
    /\ dleft = << >>
    /\ dcur = "none"
    /\ dread = 0
    /\ daccepted = 0
    /\ irs_map = NoKeys
    /\ produced = [e \in Editions |-> 0]
    /\ dlast = NoLog
    /\ dwritten = {}
    /\ dfrom = NoKeys
    /\ dcalls = NoKeys
    /\ demitted = NoKeys
    /\ dio = {}
    /\ derr = "none"

InitDict ==
    /\ InitRel
    /\ db = [e \in Editions |-> << >>]
    /\ lineLangs = {"de"}
    /\ dcfg \in Configs
    /\ dpc = "start"
    /\ dleft = dcfg.editions
    /\ dcur = "none"
    /\ dread = 0
    /\ daccepted = 0
    /\ irs_map = NoKeys
    /\ produced = [e \in Editions |-> 0]
    /\ dlast = NoLog
    /\ dwritten = {}
    /\ dfrom = NoKeys
    /\ dcalls = NoKeys
    /\ demitted = NoKeys
    /\ dio = {}
    /\ derr = "none"
    /\ IrIdle
    /\ FetchIdle
    /\ IndexIdle

NextDict ==
    \/ DStart
    \/ DOpen
    \/ DScanStream
    \/ DScanCache
    \/ DEof
    \/ DScanned
    \/ DDrain
    \/ DFinish

SpecDict == InitDict /\ [][NextDict]_vars

(***************************************************************************)
(* The loop over the buckets of a run over three editions (SpecDrain)      *)
(***************************************************************************)
\* The editions iter_datasets has yielded in a run with EditionSpec::All
DrainEditions == <<"en", Simple, "de">>

\* core.rs:313-320 / release.rs:366-389: the key an edition's records went to
DrainKey(kind, n) ==
    langs_to_key(kind, [edition |-> DrainEditions[n], source |-> "de", target |-> "en"])

\* core.rs:338 / release.rs:396: make_dict when iter_datasets is exhausted, for
\* a kind whose key keeps the edition: every dataset has left no bucket (no
\* record reached the kind), an empty one, or one holding what process derived
\* from a record.
InitDrain ==
    /\ InitRel
    /\ db = [e \in Editions |-> << >>]
    /\ lineLangs = {"de"}
    /\ dcfg \in [variant : {"stream", "cache"}, kind : {"main", "ipa", "glossary"},
                 editions : {DrainEditions}, source : {"de"}, target : {"en"},
                 reject : {{}}, filter : {{}}, first : {0}, skip_yomitan : BOOLEAN]
    /\ dpc = "drain"
    /\ dleft = << >>
    /\ dcur = DrainEditions[Len(DrainEditions)]
    /\ dread = 0
    /\ daccepted = 0
    /\ \E present \in SUBSET (1..Len(DrainEditions)) :
        \E entry \in [present -> {NoRecord} \cup {r \in Records : r.k /\ r.c /\ r.pos = "n"}] :
        \E new \in [present -> UNION {process(dcfg.kind, [edition |-> e, source |-> "de", target |-> "en"], r)
                                      : e \in Range(DrainEditions), r \in Records \cup {NoRecord}}] :
            /\ \A n \in present :
                  new[n] \in process(dcfg.kind,
                                     [edition |-> DrainEditions[n], source |-> "de", target |-> "en"],
                                     entry[n])
            /\ irs_map = [key \in {DrainKey(dcfg.kind, n) : n \in present} |->
                             new[CHOOSE n \in present : DrainKey(dcfg.kind, n) = key]]
            /\ dfrom = [key \in {DrainKey(dcfg.kind, n) : n \in present} |->
                           LET n == CHOOSE m \in present : DrainKey(dcfg.kind, m) = key
                           IN  [i \in 1..Len(new[n]) |->
                                   [lemma |-> LemmaOf(new[n][i]), edition |-> DrainEditions[n]]]]
            /\ produced = [e \in Editions |->
                              IF \E n \in present : DrainEditions[n] = e
                              THEN Len(new[CHOOSE n \in present : DrainEditions[n] = e])
                              ELSE 0]
    /\ dlast = NoLog
    /\ dwritten = {}
    /\ dcalls = NoKeys
    /\ demitted = NoKeys
    /\ dio = IF dcfg.variant = "cache" THEN {"dirs", "dataset", "cache", "record"}
             ELSE {"dirs", "dataset", "record"}
    /\ derr = "none"
    /\ IrIdle
    /\ FetchIdle
    /\ IndexIdle

NextDrain ==
    \/ DDrain
    \/ DFinish

SpecDrain == InitDrain /\ [][NextDrain]_vars


Init ==
    /\ InitRel
    /\ lineLangs = {"de"}
    /\ DictIdle
    /\ IrIdle
    /\ FetchIdle
    /\ IndexIdle

InitCache ==
    /\ InitRel
    /\ lineLangs = {"en", "de"}
    /\ DictIdle
    /\ IrIdle
    /\ FetchIdle
    /\ IndexIdle

Next ==
    \/ \E e \in Editions : CreateCount(e)
    \/ \E e \in Editions : ImportLine(e)
    \/ \E e \in Editions : ImportCommit(e)
    \/ DbPhaseDone
    \/ DbPhasePanic
    \/ \E e \in Editions : EditionStart(e)
    \/ \E i \in ItemIds : ItemSkip(i)
    \/ \E i \in ItemIds : ItemStart(i)
    \/ \E i \in ItemIds : ItemFinish(i)
    \/ \E e \in Editions : StageNext(e)
    \/ \E e \in Editions : StageUnwind(e)
    \/ ReleaseOk
    \/ ReleasePanic

Spec == Init /\ [][Next]_vars

NextCache ==
    \/ \E e \in Editions : CreateCount(e)
    \/ \E e \in Editions : ImportLine(e)
    \/ \E e \in Editions : ImportCommit(e)
    \/ \E e \in Editions : CreateAgain(e)

SpecCache == InitCache /\ [][NextCache]_vars

(***************************************************************************)
(* The transforms on their own (SpecIr): one bucket of one kind is fed     *)
(* records, post-processed and converted                                   *)
(***************************************************************************)
\* translations the records fed to one glossary bucket hold together
MaxTrans == 3
\* records fed to one bucket of a phonetic kind
MaxIpaRecs == 3

IrKinds == {"ipa", "ipa_merged", "glossary", "glossary_extended"}

IpaKinds == {"ipa", "ipa_merged"}

\* the langs of the calls: a dictionary from German (source) to English (target)
IrLangs(e) == [edition |-> e, source |-> "de", target |-> "en"]

Translations == {Tr(l, s, w) : l \in {"en", "de", "fr"}, s \in {"", "X"}, w \in Words}

TranslationLists(n) == UNION {[1..m -> Translations] : m \in 1..n}

IpaEntries ==
    {WordEntry(w, "n", TRUE, TRUE, r, ipas, << >>)
     : w \in Words, r \in {"", "r"}, ipas \in {<< >>, <<"i">>, <<"i", "j">>}}

GlossaryEntries(n) ==
    {WordEntry("a", "n", TRUE, TRUE, "", << >>, trs) : trs \in TranslationLists(n)}

\* records of either part of speech that hold the source-side word "a" and one
\* target-side word under the empty sense: several of them fit into one bucket
PairEntries ==
    {WordEntry("a", p, TRUE, TRUE, "", << >>, <<Tr("de", "", "a"), Tr("en", "", v)>>)
     : p \in {"n", "v"}, v \in Words}

\* what a record takes of the bound on the input of a bucket
Cost(entry) ==
    IF xkind \in IpaKinds \/ entry \in PairEntries THEN 1 ELSE Len(entry.translations)

\* the records that can still be fed to the bucket
IrEntries ==
    IF xkind \in IpaKinds
    THEN (IF xused < MaxIpaRecs THEN IpaEntries ELSE {})
    ELSE GlossaryEntries(MaxTrans - xused)
         \cup (IF xkind = "glossary_extended" /\ xused < MaxTrans THEN PairEntries ELSE {})

\* core.rs:323 / release.rs:392  dict.process(langs, &entry, irs)
XProcess ==
    /\ xop \in {"none", "process"}
    /\ \E entry \in IrEntries, e \in Editions :
        \E new \in process(xkind, IrLangs(e), entry) :
            /\ xbefore' = xirs
            /\ xirs' = xirs \o new
            /\ xentry' = entry
            /\ xused' = xused + Cost(entry)
    /\ xop' = "process"
    /\ UNCHANGED <<xkind, xout>>
    /\ UNCHANGED <<relVars, dictVars, fetchVars, indexVars>>

\* core.rs:351 / release.rs:407  dict.postprocess(&mut irs)
XPostprocess ==
    /\ xop \in {"none", "process"}
    /\ \E tidy \in postprocess(xkind, xirs) :
        /\ xbefore' = xirs
        /\ xirs' = tidy
    /\ xentry' = NoRecord
    /\ xop' = "postprocess"
    /\ UNCHANGED <<xkind, xout, xused>>
    /\ UNCHANGED <<relVars, dictVars, fetchVars, indexVars>>

\* core.rs:365-374 / release.rs:419-428  dict.to_yomitan(langs, irs)
XEmit ==
    /\ xop = "postprocess"
    /\ xout' = to_yomitan(xkind, xirs)
    /\ xop' = "to_yomitan"
    /\ UNCHANGED <<xkind, xirs, xbefore, xentry, xused>>
    /\ UNCHANGED <<relVars, dictVars, fetchVars, indexVars>>

InitIr ==
    /\ InitRel
    /\ db = [e \in Editions |-> << >>]
    /\ lineLangs = {"de"}
    /\ DictIdle
    /\ xkind \in IrKinds
    /\ xirs = << >>
    /\ xbefore = << >>
    /\ xentry = NoRecord
    /\ xop = "none"
    /\ xout = << >>
    /\ xused = 0
    /\ FetchIdle
    /\ IndexIdle

NextIr ==
    \/ XProcess
    \/ XPostprocess
    \/ XEmit

SpecIr == InitIr /\ [][NextIr]_vars

(***************************************************************************)
(* One store, imported and then read by two cache-backed make_dict calls   *)
(* at once (SpecFetch)                                                     *)
(***************************************************************************)
\* lines of the raw file
MaxLines == 3

\* release.rs:320  rkyv::to_bytes(&word_entry)
to_bytes(entry) == <<"rkyv", entry.lang_code, entry.word>>

\* release.rs:334-340, for a blob import_jsonl has written
blob_to_word_entry(blob) == [lang_code |-> blob[2], word |-> blob[3]]

StoredRow_EditionLang(entry) == [lang |-> "en", entry |-> to_bytes(entry)]

\* release.rs:315-322  INSERT INTO wiktextract (lang, entry) VALUES (?, ?) with
\* params![word_entry.lang_code, bytes]
StoredRow(entry) == [lang |-> entry.lang_code, entry |-> to_bytes(entry)]

\* release.rs:378-383  SELECT entry FROM wiktextract WHERE lang = ?: the table
\* has no index, the rows are scanned in rowid order
Fetch(store, lang) == SelectSeq(store, LAMBDA row : row.lang = lang)

NewMap_Shared(w) == <<"irs_map", "static">>

\* release.rs:352  let mut irs_map = Map::default(): a map of the call's own
NewMap(w) == <<"irs_map", w>>

\* release.rs:366-370, 389: the key of a main dictionary of the English edition
\* with the selected language as source
FetchKey(lang) == langs_to_key("main", [edition |-> "en", source |-> lang, target |-> "en"])

\* release.rs:317-323: import_jsonl reads a line, a record of some language
\* code and head word, and inserts its row
FImportLine ==
    /\ fpc = "import"
    /\ Len(flines) < MaxLines
    /\ \E entry \in [lang_code : {"en", "de"}, word : Words] :
        /\ flines' = Append(flines, entry)
        /\ fstore' = Append(fstore, StoredRow(entry))
    /\ UNCHANGED <<fpc, fw, fheap>>
    /\ UNCHANGED <<relVars, dictVars, irVars, indexVars>>

\* release.rs:325  tx.commit(); create returns, the first par_iter ends
FCommit ==
    /\ fpc = "import"
    /\ fpc' = "read"
    /\ UNCHANGED <<flines, fstore, fw, fheap>>
    /\ UNCHANGED <<relVars, dictVars, irVars, indexVars>>

\* release.rs:343-381: a make_dict call starts on a rayon worker: its map is
\* created, the store opened and the rows of its language selected
FStart(w) ==
    /\ fpc = "read"
    /\ fw[w].state = "idle"
    /\ \E lang \in {"en", "de"} :
        fw' = [fw EXCEPT ![w] = [state |-> "running", lang |-> lang, pos |-> 0,
                                 map |-> NewMap(w), got |-> << >>]]
    /\ fheap' = (NewMap(w) :> NoKeys) @@ fheap
    /\ UNCHANGED <<fpc, flines, fstore>>
    /\ UNCHANGED <<relVars, dictVars, irVars, indexVars>>

\* release.rs:383-393: rows.next() yields a row; its record is decoded and its
\* item pushed to the bucket of the key in the call's map
FRow(w) ==
    /\ fw[w].state = "running"
    /\ LET rows == Fetch(fstore, fw[w].lang)
           n == fw[w].pos + 1
       IN  /\ n <= Len(rows)
           /\ LET entry == blob_to_word_entry(rows[n].entry)
                  key == FetchKey(fw[w].lang)
                  map == fheap[fw[w].map]
                  irs == IF key \in DOMAIN map THEN map[key] ELSE << >>
              IN  /\ fheap' = [fheap EXCEPT ![fw[w].map] =
                                  (key :> Append(irs, [lemma |-> entry.word])) @@ map]
                  /\ fw' = [fw EXCEPT ![w].pos = n, ![w].got = Append(fw[w].got, entry)]
    /\ UNCHANGED <<fpc, flines, fstore>>
    /\ UNCHANGED <<relVars, dictVars, irVars, indexVars>>

\* release.rs:383: rows.next() yields None
FEnd(w) ==
    /\ fw[w].state = "running"
    /\ fw[w].pos = Len(Fetch(fstore, fw[w].lang))
    /\ fw' = [fw EXCEPT ![w].state = "done"]
    /\ UNCHANGED <<fpc, flines, fstore, fheap>>
    /\ UNCHANGED <<relVars, dictVars, irVars, indexVars>>

InitFetch ==
    /\ InitRel
    /\ db = [e \in Editions |-> << >>]
    /\ lineLangs = {"de"}
    /\ DictIdle
    /\ IrIdle
    /\ IndexIdle
    /\ fpc = "import"
    /\ flines = << >>
    /\ fstore = << >>
    /\ fw = [w \in FetchWorkers |-> NoCall]
    /\ fheap = NoKeys

NextFetch ==
    \/ FImportLine
    \/ FCommit
    \/ \E w \in FetchWorkers : FStart(w)
    \/ \E w \in FetchWorkers : FRow(w)
    \/ \E w \in FetchWorkers : FEnd(w)

SpecFetch == InitFetch /\ [][NextFetch]_vars

(***************************************************************************)
(* The URLs and the index of a dictionary (SpecIndex); a string is the     *)
(* sequence of the pieces format! puts together                            *)
(***************************************************************************)
\* index.rs:3
BASE_URL == "https://huggingface.co/datasets/daxida/wty-release/resolve/main/latest"

download_url_Swapped(dict_name_expanded, source, target) ==
    <<BASE_URL, "/dict/", target, "/", source, "/", dict_name_expanded, ".zip?download=true">>

\* index.rs:8-11
download_url(dict_name_expanded, source, target) ==
    <<BASE_URL, "/dict/", source, "/", target, "/", dict_name_expanded, ".zip?download=true">>

\* index.rs:16-18
index_url(dict_name_expanded) ==
    <<BASE_URL, "/index/", dict_name_expanded, "-index.json?download=true">>

\* index.rs:39-60: the members of the JSON object, in the order of the text
get_index(dict_name_expanded, source, target, current_date) ==
    << <<"title", <<dict_name_expanded>> >>,
       <<"format", <<"3">> >>,
       <<"revision", <<current_date>> >>,
       <<"sequenced", <<"true">> >>,
       <<"author", <<"wty contributors">> >>,
       <<"url", <<"https://github.com/daxida/wty">> >>,
       <<"description", <<"Dictionaries for various language pairs generated from Wiktionary data, via Kaikki and wty.">> >>,
       <<"attribution", <<"https://kaikki.org/">> >>,
       <<"sourceLanguage", <<source>> >>,
       <<"targetLanguage", <<target>> >>,
       <<"isUpdatable", <<"true">> >>,
       <<"indexUrl", index_url(dict_name_expanded)>>,
       <<"downloadUrl", download_url(dict_name_expanded, source, target)>> >>

\* index.rs:8  download_url is called
IDownloadUrl ==
    /\ iop = "none"
    /\ iout' = download_url(iname, isource, itarget)
    /\ iop' = "download_url"
    /\ UNCHANGED <<iname, isource, itarget>>
    /\ UNCHANGED <<relVars, dictVars, irVars, fetchVars>>

\* index.rs:16  index_url is called
IIndexUrl ==
    /\ iop = "none"
    /\ iout' = index_url(iname)
    /\ iop' = "index_url"
    /\ UNCHANGED <<iname, isource, itarget>>
    /\ UNCHANGED <<relVars, dictVars, irVars, fetchVars>>

\* index.rs:39-40  get_index is called; chrono::Utc::now().format("%Y.%m.%d")
\* gives the day
IGetIndex ==
    /\ iop = "none"
    /\ \E current_date \in {"2026.01.01", "2026.01.02"} :
        iout' = get_index(iname, isource, itarget, current_date)
    /\ iop' = "get_index"
    /\ UNCHANGED <<iname, isource, itarget>>
    /\ UNCHANGED <<relVars, dictVars, irVars, fetchVars>>

\* the arguments: the expanded name of some dictionary and two languages, as
\* Display writes them
InitIndex ==
    /\ InitRel
    /\ db = [e \in Editions |-> << >>]
    /\ lineLangs = {"de"}
    /\ DictIdle
    /\ IrIdle
    /\ FetchIdle
    /\ iname \in {"wty-afb-en-ipa", "wty-de-en", "wty-en-de-gloss"}
    /\ isource \in {"afb", "en", "de"}
    /\ itarget \in {"afb", "en", "de"}
    /\ iop = "none"
    /\ iout = << >>

NextIndex ==
    \/ IDownloadUrl
    \/ IIndexUrl
    \/ IGetIndex

SpecIndex == InitIndex /\ [][NextIndex]_vars

(***************************************************************************)
(* Claims on the record cache (SpecCache)                                  *)
(***************************************************************************)
\* C1: a call of create that reads a non-zero row count starts no import and
\* leaves the rows of the store as they are, whatever the raw file holds; an
\* import is started if and only if the count read is zero.
C1_CreateIdempotent ==
    [][\A e \in Editions :
          /\ (cpc[e] = "todo" /\ cpc'[e] # "todo") =>
                /\ (cpc'[e] = "import") <=> (Len(db[e]) = 0)
                /\ Len(db[e]) # 0 => cpc'[e] = "done"
          /\ (counted'[e] > 0) => (db'[e] = db[e])]_vars

C1_Witness ==
    \E e \in Editions :
        calls[e] >= 2 /\ cpc[e] = "done" /\ counted[e] > 0 /\ Len(db[e]) = counted[e]

\* C2: while an import is running and after it has failed, the store shows
\* zero rows: the rows of the attempt are never visible, and the next create
\* for the edition reads a count of zero.
C2_ImportAllOrNothing ==
    \A e \in Editions : cpc[e] \in {"import", "failed"} => Len(db[e]) = 0

C2_Witness ==
    \E e \in Editions : cpc[e] = "failed" /\ rolledBack[e] > 0 /\ Len(db[e]) = 0

(***************************************************************************)
(* Claims on the release run (Spec)                                        *)
(***************************************************************************)
Invoked(i) == item[i] \in {"running", "ok", "err", "panic"}

\* C3: whenever a make_dict call of the fan-out is running, create has returned
\* for every edition whose store the call reads.
C3_ImportBeforeRead ==
    \A i \in ItemIds :
        item[i] = "running" => \A d \in ReadEditions(i) : cpc[d] = "done"

C3_Witness ==
    \E i \in ItemIds :
        /\ item[i] = "running"
        /\ \E d \in ReadEditions(i) : counted[d] = 0 /\ Len(db[d]) > 0

\* C4 (as claimed): a failing combination never aborts the release run, and
\* when the run is over every combination the rules do not exclude has been
\* executed.
C4_FailureIsolation ==
    /\ phase # "dicts_panicked"
    /\ phase = "finished" => \A i \in ItemIds : ~Skips(i) => item[i] \in {"ok", "err"}

\* C5 (as claimed): a make_dict call that has read a blob that does not decode
\* has ended with an error, and no edition's fan-out is abandoned for it.
C5_BadBlobIsLocal ==
    /\ \A i \in ItemIds :
          (HitsBadBlob(i) /\ Invoked(i) /\ item[i] # "running") => item[i] = "err"
    /\ \A e \in Editions : stage[e] # "unwound"

\* C6 (as claimed): across all editions, at most NumThreads make_dict calls of
\* the main kind run at the same time.
C6_MainCeilingGlobal ==
    Cardinality({i \in ItemIds : i[1] = "main" /\ item[i] = "running"}) <= NumThreads

\* C7 (as claimed): for every kind, the combination whose language is the
\* edition's own language (neither being the Simple marker) never calls
\* make_dict.
C7_SkipRuleEveryKind ==
    \A i \in ItemIds :
        (i[3] = LangOf(i[2]) /\ i[2] # Simple) => ~Invoked(i)

\* C7 (amended): the glossary kind never calls make_dict for the target that is
\* the edition's own language; the main, phonetic and phonetic-merged kinds
\* never skip the combination whose language is the edition's own.
C7_SkipRuleGlossary ==
    \A i \in ItemIds :
        (i[3] = LangOf(i[2]) /\ i[2] # Simple) =>
            IF i[1] = "glossary" THEN ~Invoked(i) ELSE item[i] # "skipped"

C7_Witness ==
    /\ item[<<"glossary", "en", "en">>] = "skipped"
    /\ item[<<"main", "en", "en">>] = "ok"
    /\ item[<<"glossary", "en", "de">>] = "ok"

\* C21 (as claimed): when the fan-out of a release run is over, make_dict has
\* been called, and has returned, for every combination the rules do not
\* exclude, and has not been called for an excluded one.
C21_FanOutCoverage ==
    phase \in {"finished", "dicts_panicked"} =>
        \A i \in ItemIds :
            IF Skips(i) THEN ~Invoked(i) ELSE item[i] \in {"ok", "err"}

\* C22: in a release run create is called at most once for each edition: the
\* count is read, and the import started, by one closure of the first loop
\* only, and no import is running once that loop is left.
C22_SingleImporter ==
    \A e \in Editions :
        /\ calls[e] <= 1
        /\ cpc[e] \in {"import", "done", "failed"} => calls[e] = 1
        /\ phase # "db" => cpc[e] # "import"

C22_Witness ==
    /\ phase = "dicts"
    /\ \A e \in Editions : calls[e] = 1 /\ counted[e] = 0 /\ Len(db[e]) > 0
    /\ \E i \in ItemIds : item[i] = "running"

\* the stages of an edition that follow the stage of a kind
After(k) ==
    CASE k = "main" -> {"ipa", "ipa_merged", "glossary", "done"}
      [] k = "ipa" -> {"ipa_merged", "glossary", "done"}
      [] k = "ipa_merged" -> {"glossary", "done"}
      [] k = "glossary" -> {"done"}

\* C33: for the main and phonetic kinds a combination in which exactly one of
\* edition and language is Simple never calls make_dict, and the closure of
\* (Simple, Simple) never returns before make_dict, calls it at most once and
\* has called it, and seen it return, when its loop has returned; for the
\* glossary and phonetic-merged kinds no combination with Simple in it calls
\* make_dict.
C33_SelfMarkerRule ==
    [][\A i \in ItemIds :
        /\ IF i[1] \in {"main", "ipa"}
           THEN IF i[2] = Simple /\ i[3] = Simple
                THEN /\ item'[i] # "skipped"
                     /\ stage'[i[2]] \in After(i[1]) => item'[i] \in {"ok", "err"}
                     /\ (Invoked(i)' /\ ~Invoked(i)) => item[i] = "todo"
                     /\ item[i] # "todo" => item'[i] # "todo"
                ELSE (i[2] = Simple \/ i[3] = Simple) => ~Invoked(i)'
           ELSE (i[2] = Simple \/ i[3] = Simple) => ~Invoked(i)']_vars

\* the fan-out of the Simple edition has returned and the English one has run
\* its main loop: the two (Simple, Simple) calls were made, every other
\* combination with Simple in it returned before make_dict
C33_Witness ==
    /\ stage[Simple] = "done"
    /\ item[<<"main", Simple, Simple>>] = "ok"
    /\ item[<<"ipa", Simple, Simple>>] \in {"ok", "err"}
    /\ item[<<"main", Simple, "en">>] = "skipped"
    /\ item[<<"ipa", Simple, "de">>] = "skipped"
    /\ item[<<"main", "en", Simple>>] = "skipped"
    /\ item[<<"ipa_merged", Simple, Simple>>] = "skipped"
    /\ item[<<"glossary", Simple, Simple>>] = "skipped"
    /\ item[<<"glossary", Simple, "en">>] = "skipped"

(***************************************************************************)
(* Claims on one make_dict run (SpecDict)                                  *)
(***************************************************************************)
\* C8 (as claimed): in the line-streaming and in the cache-backed make_dict, a
\* record that matches a reject rule, or fails a filter rule, is passed neither
\* to keep_if nor to preprocess/process.
C8_GlobalFilterFirst ==
    (dlast.seen /\ rejected(dlast.rec, dcfg)) =>
        (~dlast.keepCalled /\ ~dlast.processed)

\* C9 (as claimed): in every pipeline run, a record for which keep_if answers
\* false is not passed to preprocess/process and no bucket is created or
\* changed for it.
C9_KeepBeforeTransform ==
    (dlast.seen /\ ~keep_if(dcfg.kind, dcfg.source, dlast.rec)) =>
        (~dlast.processed /\ ~dlast.touched)

\* the items the bucket has received from records of edition e
FromEdition(key, e) ==
    Cardinality({n \in 1..Len(From(key)) : From(key)[n].edition = e})

\* C10: while an edition-merging kind scans its datasets, and when it has
\* scanned them all, the map holds at most one bucket, keyed by the run's
\* (source, target), and that bucket holds every IR item produced so far, from
\* whichever edition.
C10_EditionCollapse ==
    (Merging(dcfg.kind) /\ dpc \in {"open", "scan"}) =>
        /\ Cardinality(DOMAIN irs_map) <= 1
        /\ \A key \in DOMAIN irs_map :
              /\ key.source = dcfg.source
              /\ key.target = dcfg.target
              /\ Len(irs_map[key]) = Len(From(key))
              /\ \A e \in Editions : FromEdition(key, e) = produced[e]
        /\ DOMAIN irs_map = {} => \A e \in Editions : produced[e] = 0

C10_Witness ==
    /\ Merging(dcfg.kind)
    /\ dpc = "open"
    /\ dleft = << >>
    /\ produced["en"] > 0
    /\ produced[Simple] > 0
    /\ Cardinality(DOMAIN irs_map) = 1

\* C23: in a run of a kind with the default key (main, phonetic, glossary)
\* every item a bucket has received comes from a record of the edition in the
\* bucket's key, and the bucket keyed by an edition and the run's (source,
\* target) has received every item produced from that edition.
C23_DefaultBucketIdentity ==
    ~Merging(dcfg.kind) =>
        /\ \A key \in DOMAIN dfrom : \A n \in 1..Len(dfrom[key]) :
              dfrom[key][n].edition = key.edition
        /\ \A e \in Editions :
              LET key == [edition |-> e, source |-> dcfg.source, target |-> dcfg.target]
              IN  /\ FromEdition(key, e) = produced[e]
                  /\ dpc \in {"open", "scan"} => Len(Bucket(key)) = produced[e]

C23_Witness ==
    /\ ~Merging(dcfg.kind)
    /\ dpc = "open"
    /\ dleft = << >>
    /\ produced["en"] > 0
    /\ produced[Simple] > 0
    /\ Cardinality(DOMAIN irs_map) = 2

\* C11: a run of the edition-merged phonetic kind whose bucket has received,
\* from records of two or more editions, the item of one head word (the records
\* of a run give every item of a head word the same reading and the same
\* transcriptions) emits exactly one entry for that word.
C11_CrossEditionDedup ==
    dcfg.kind = "ipa_merged" =>
        \A key \in DOMAIN demitted : \A w \in Words :
            Cardinality({f.edition : f \in {g \in Range(From(key)) : g.lemma = w}}) >= 2
            => Cardinality({n \in 1..Len(demitted[key]) : demitted[key][n].term = w}) = 1

C11_Witness ==
    /\ dcfg.kind = "ipa_merged"
    /\ dpc = "ok"
    /\ \E key \in DOMAIN demitted :
        /\ Len(From(key)) >= 3
        /\ \A e \in Editions : \E f \in Range(From(key)) : f.edition = e /\ f.lemma = "a"

(***************************************************************************)
(* Claims on the transforms (SpecIr)                                       *)
(***************************************************************************)
\* the place of a word in the ascending order of the lemmas
Rank(w) == CHOOSE n \in 1..Len(WordOrder) : WordOrder[n] = w

\* the items the last process call appended
Added == SubSeq(xirs, Len(xbefore) + 1, Len(xirs))

\* C12: after postprocess of a phonetic-merged bucket the items are sorted
\* ascending by lemma, no two items are equal on (lemma, reading,
\* transcriptions), and an item is in the bucket if and only if an equal item
\* was in it before.
C12_PhoneticMergePost ==
    (xkind = "ipa_merged" /\ xop = "postprocess") =>
        /\ \A n \in 1..(Len(xirs) - 1) : Rank(xirs[n].lemma) <= Rank(xirs[n + 1].lemma)
        /\ \A n, m \in 1..Len(xirs) : n # m => xirs[n] # xirs[m]
        /\ Range(xirs) = Range(xbefore)

C12_Witness ==
    /\ xkind = "ipa_merged"
    /\ xop = "postprocess"
    /\ Len(xbefore) = 3
    /\ Len(xirs) = 2
    /\ xbefore[1].lemma = "b"
    /\ xirs[1].lemma = "a"

NoDuplicate(s) == \A n, m \in 1..Len(s) : n # m => s[n] # s[m]

\* C13: after postprocess of a cross-glossary bucket no item holds the same
\* translation twice, and no definition list emitted for it holds the same
\* translation string twice, also when the records held duplicate translation
\* cross-references.
C13_CrossGlossaryDefsAreSets ==
    /\ (xkind = "glossary_extended" /\ xop \in {"postprocess", "to_yomitan"}) =>
          \A n \in 1..Len(xirs) : NoDuplicate(xirs[n].translations)
    /\ (xkind = "glossary_extended" /\ xop = "to_yomitan") =>
          /\ Len(xout) = Len(xirs)
          /\ \A n \in 1..Len(xout) :
                /\ NoDuplicate(xout[n].definitions)
                /\ Len(xout[n].definitions) = Len(xirs[n].translations)

C13_Witness ==
    /\ xkind = "glossary_extended"
    /\ xop = "to_yomitan"
    /\ \E n \in 1..Len(xbefore) : ~NoDuplicate(xbefore[n].translations)
    /\ Len(xout) > 0

\* C26: after postprocess of a cross-glossary bucket there is exactly one item
\* for every lemma the bucket held and none for another lemma; the item holds
\* exactly the translations of all the items of its lemma, and the pos and the
\* edition of the first of them.
C26_CrossGlossaryMerge ==
    (xkind = "glossary_extended" /\ xop = "postprocess") =>
        /\ {xirs[n].lemma : n \in 1..Len(xirs)} = {xbefore[k].lemma : k \in 1..Len(xbefore)}
        /\ \A n, m \in 1..Len(xirs) : xirs[n].lemma = xirs[m].lemma => n = m
        /\ \A n \in 1..Len(xirs) :
              LET same == {k \in 1..Len(xbefore) : xbefore[k].lemma = xirs[n].lemma}
                  first == CHOOSE k \in same : \A j \in same : k <= j
              IN  /\ Range(xirs[n].translations) =
                        UNION {Range(xbefore[k].translations) : k \in same}
                  /\ xirs[n].pos = xbefore[first].pos
                  /\ xirs[n].edition = xbefore[first].edition

C26_Witness ==
    /\ xkind = "glossary_extended"
    /\ xop = "postprocess"
    /\ Len(xirs) = 1
    /\ \E k \in 2..Len(xbefore) :
          /\ xbefore[k].lemma = xbefore[1].lemma
          /\ xbefore[k].pos # xbefore[1].pos
          /\ xbefore[k].edition # xbefore[1].edition
          /\ Range(xbefore[k].translations) # Range(xbefore[1].translations)
          /\ xirs[1].pos = xbefore[1].pos
          /\ xirs[1].edition = xbefore[1].edition

C14_CrossGlossaryTransform ==
    (xkind = "glossary_extended" /\ xop = "process") =>
        \E e \in Editions :
            \E o \in Orderings(RetainedSenses("de", "en", xentry)) :
                Added = Concat([n \in 1..Len(o) |->
                    LET targets == WordsOf(xentry.translations, "en", o[n])
                        sources == WordsOf(xentry.translations, "de", o[n])
                    IN  [m \in 1..Len(targets) |->
                            IGlossaryExtended(targets[m], found_pos(xentry), e, sources)]])

\* the translations of a record into one language, in input order
Into(entry, lang) == SelectSeq(entry.translations, LAMBDA t : t.lang_code = lang)

\* C15: for a record whose translations into the target language all carry
\* the same non-empty sense label, the glossary transform appends one item
\* whose definitions are exactly one structured block: the sense, then those
\* translations in input order.
C15_GlossaryLabelledSense ==
    (/\ xkind = "glossary"
     /\ xop = "process"
     /\ Into(xentry, "en") # << >>
     /\ \A t \in Range(Into(xentry, "en")) :
           t.sense # "" /\ t.sense = Into(xentry, "en")[1].sense) =>
        /\ Len(Added) = 1
        /\ Added[1].term = xentry.word
        /\ Added[1].definitions =
              <<StructuredDef(Into(xentry, "en")[1].sense,
                              [n \in 1..Len(Into(xentry, "en")) |->
                                  Into(xentry, "en")[n].word])>>
        /\ \A d \in Range(Added[1].definitions) : d.type # "text"

C15_Witness ==
    /\ xkind = "glossary"
    /\ xop = "process"
    /\ Len(Into(xentry, "en")) = 2
    /\ Into(xentry, "en")[1] = Tr("en", "X", "b")
    /\ Into(xentry, "en")[2] = Tr("en", "X", "a")
    /\ Len(Added) = 1

\* C16: the glossary transform appends nothing, and leaves the bucket as it
\* was, for a record without a translation into the target language; it
\* appends at most one item for any record.
C16_GlossaryNoTargetMatch ==
    (xkind = "glossary" /\ xop = "process") =>
        /\ Into(xentry, "en") = << >> => xirs = xbefore
        /\ Len(xirs) <= Len(xbefore) + 1
        /\ SubSeq(xirs, 1, Len(xbefore)) = xbefore

C16_Witness ==
    /\ xkind = "glossary"
    /\ xop = "process"
    /\ xentry.translations # << >>
    /\ Into(xentry, "en") = << >>
    /\ xbefore # << >>
    /\ xirs = xbefore

\* C17: the phonetic transform appends nothing for a record without
\* transcriptions, and for any other record exactly one item: the head word,
\* the reading that resolves (the head word when none does) and all the
\* transcriptions of the record.
C17_PhoneticTransform ==
    (xkind \in IpaKinds /\ xop = "process") =>
        IF xentry.ipas = << >> THEN xirs = xbefore
        ELSE xirs = Append(xbefore,
                           IIpa(xentry.word,
                                IF xentry.reading = "" THEN xentry.word
                                ELSE xentry.reading,
                                xentry.ipas))

C17_Witness ==
    /\ xkind = "ipa"
    /\ xop = "process"
    /\ xentry.reading = ""
    /\ Len(xentry.ipas) = 2
    /\ Len(xbefore) = 1
    /\ Len(xirs) = 2
    /\ xirs[2].reading = xentry.word

(***************************************************************************)
(* Claims on the drain of one make_dict run (SpecDict)                     *)
(***************************************************************************)
\* C18: a bucket is post-processed and emitted only when every dataset has
\* been scanned; the drain loop calls postprocess exactly once for a non-empty
\* bucket it visits, to_yomitan at most once and only after postprocess, and
\* a bucket it has visited is no longer in the map; a run that returns Ok has
\* visited every bucket.
C18_StageOrder ==
    /\ DOMAIN dcalls # {} => (dleft = << >> /\ dpc \in {"drain", "ok", "err"})
    /\ \A key \in DOMAIN dcalls :
          /\ key \notin DOMAIN irs_map
          /\ dcalls[key] \in {<< >>, <<"postprocess">>,
                              <<"postprocess", "to_yomitan", "write_yomitan">>}
          /\ Len(From(key)) > 0 => dcalls[key] # << >>
          /\ key \in DOMAIN demitted <=> Len(dcalls[key]) > 1
    /\ DOMAIN demitted \subseteq DOMAIN dcalls
    /\ dwritten \subseteq DOMAIN demitted
    /\ dpc = "ok" => DOMAIN dfrom \subseteq DOMAIN dcalls

C18_Witness ==
    /\ dpc = "ok"
    /\ Cardinality(DOMAIN dcalls) = 2
    /\ \A key \in DOMAIN dcalls :
          dcalls[key] = <<"postprocess", "to_yomitan", "write_yomitan">>
    /\ dwritten = DOMAIN dcalls

\* C19: a bucket that holds no item when the drain loop visits it gets no call
\* of postprocess, to_yomitan or write_yomitan and no output, and a run whose
\* buckets are all empty does not fail in the drain.
C19_EmptyBucketSkipped ==
    /\ \A key \in DOMAIN dcalls :
          Len(From(key)) = 0 =>
              /\ dcalls[key] = << >>
              /\ key \notin DOMAIN demitted
              /\ key \notin dwritten
    /\ (dpc = "err" /\ \A key \in DOMAIN dfrom : Len(dfrom[key]) = 0) =>
          derr \notin {"out_dirs", "write"}
    /\ (dpc = "ok" /\ \A key \in DOMAIN dfrom : Len(dfrom[key]) = 0) =>
          (dwritten = {} /\ DOMAIN demitted = {})

C19_Witness ==
    /\ dpc = "ok"
    /\ ~dcfg.skip_yomitan
    /\ Cardinality(DOMAIN dcalls) = 2
    /\ \A key \in DOMAIN dcalls : dcalls[key] = << >>

\* C20 (as claimed): a run whose arguments do not convert, or that is given
\* 'all' where the cache-backed make_dict needs one language, ends with an
\* error, before a directory is set up, a dataset or store is opened or a
\* record is read.
C20_ConfigRejectedFirst ==
    /\ derr = "config" => (dpc = "err" /\ dio = {})
    /\ (dcfg.source = "all" /\ dpc \in {"ok", "err", "panic"}) =>
          (dpc = "err" /\ dio = {})

\* C30: a run of the line-streaming make_dict in which a line has failed to
\* decode has ended with the error, and has post-processed, converted and
\* written no bucket, whatever the buckets hold from the lines and datasets
\* before.
C30_MalformedBlocksOutput ==
    derr = "decode" =>
        /\ dcfg.variant = "stream"
        /\ dpc = "err"
        /\ dcalls = NoKeys
        /\ demitted = NoKeys
        /\ dwritten = {}

C30_Witness ==
    /\ derr = "decode"
    /\ dpc = "err"
    /\ dcur = Simple
    /\ produced["en"] > 0
    /\ \E key \in DOMAIN irs_map : key.edition \in {"en", "all"} /\ Len(irs_map[key]) > 0

\* C31: with first = N >= 1, every step of the line-streaming make_dict that
\* reads a record passing the global filter raises the dataset's count by one,
\* whether or not the kind keeps the record; a record is handed to the kind
\* (keep_if, and through it preprocess and process) only while the count stays
\* below N, so at most N-1 records of a dataset are; once the count is N the
\* scan of the dataset has stopped and the record that made it N was not
\* handed to the kind; and the count is zero when the next dataset is opened.
C31_RecordLimit ==
    [][(dcfg.variant = "stream" /\ dcfg.first >= 1) =>
        /\ (dread' = dread + 1 /\ dlast'.seen /\ ~rejected(dlast'.rec, dcfg)) =>
               daccepted' = daccepted + 1
        /\ (dread' = dread + 1 /\ dlast'.seen /\ rejected(dlast'.rec, dcfg)) =>
               (daccepted' = daccepted /\ ~dlast'.keepCalled)
        /\ (dread' = dread + 1 /\ (dlast'.keepCalled \/ dlast'.processed)) =>
               daccepted' < dcfg.first
        /\ (dread' = dread + 1 /\ daccepted' = dcfg.first) =>
               (dpc' # "scan" /\ ~dlast'.keepCalled /\ ~dlast'.processed
                /\ irs_map' = irs_map)
        /\ (dread' = dread + 1 /\ dlast'.seen /\ ~rejected(dlast'.rec, dcfg)
             /\ daccepted' < dcfg.first) => dlast'.keepCalled
        /\ dcur' # dcur => (daccepted' = 0 /\ dread' = 0)
        /\ daccepted' <= dcfg.first]_vars

\* the second dataset's scan has been stopped by its N-th passing record, a
\* record the kind would have kept
C31_Witness ==
    /\ dcfg.variant = "stream"
    /\ dcfg.first >= 1
    /\ dcur = Simple
    /\ daccepted = dcfg.first
    /\ dpc = "open"
    /\ dlast.seen
    /\ dlast.rec.k
    /\ ~dlast.keepCalled

\* C32: when write_yomitan fails for a bucket, make_dict ends with that error
\* in the same step and takes no step after it; the buckets written before
\* stay written and the failing one is not; and no bucket still in the map
\* has been post-processed, converted or written.
C32_OutputFailureMidDrain ==
    [][/\ derr # "write"
       /\ dwritten \subseteq dwritten'
       /\ derr' = "write" =>
            /\ dpc' = "err"
            /\ dwritten' = dwritten
            /\ \E key \in DOMAIN irs_map \ DOMAIN irs_map' :
                  /\ DOMAIN irs_map' = DOMAIN irs_map \ {key}
                  /\ key \notin dwritten'
                  /\ dcalls'[key] = <<"postprocess", "to_yomitan", "write_yomitan">>
            /\ \A key \in DOMAIN irs_map' :
                  /\ irs_map'[key] = irs_map[key]
                  /\ key \notin DOMAIN dcalls'
                  /\ key \notin DOMAIN demitted'
                  /\ key \notin dwritten']_vars

\* the write of the second bucket has failed: the first is written, the third
\* is still in the map with its items
C32_Witness ==
    /\ derr = "write"
    /\ dpc = "err"
    /\ \E key \in dwritten : Len(demitted[key]) > 0
    /\ \E key \in DOMAIN irs_map : Len(irs_map[key]) > 0

(***************************************************************************)
(* Claims on the store read by concurrent make_dict calls (SpecFetch)      *)
(***************************************************************************)
\* C24: the maps of two make_dict calls are different maps; the map of a call
\* holds, under the call's own key and no other, exactly the items of the
\* records the call itself has fetched, whatever the other call does at the
\* same time; and while calls read the store its rows are those the import
\* committed.
C24_RunIsolation ==
    /\ \A w, v \in FetchWorkers :
          (w # v /\ fw[w].state # "idle" /\ fw[v].state # "idle") => fw[w].map # fw[v].map
    /\ \A w \in FetchWorkers :
          fw[w].state # "idle" =>
              /\ fw[w].map \in DOMAIN fheap
              /\ DOMAIN fheap[fw[w].map] \subseteq {FetchKey(fw[w].lang)}
              /\ \A key \in DOMAIN fheap[fw[w].map] :
                    fheap[fw[w].map][key] =
                        [n \in 1..Len(fw[w].got) |-> [lemma |-> fw[w].got[n].word]]
              /\ DOMAIN fheap[fw[w].map] = {} => fw[w].got = << >>
              /\ fstore = [n \in 1..Len(flines) |-> StoredRow(flines[n])]

C24_Witness ==
    /\ fw["w1"].state = "running"
    /\ fw["w2"].state = "running"
    /\ fw["w1"].lang = fw["w2"].lang
    /\ Len(fw["w1"].got) = 2
    /\ Len(fw["w2"].got) = 1
    /\ Len(fheap[fw["w1"].map][FetchKey(fw["w1"].lang)]) = 2
    /\ Len(fheap[fw["w2"].map][FetchKey(fw["w2"].lang)]) = 1

\* C28: every row of the store carries the language code of the record it
\* holds; a call that has fetched all the rows of its language has been handed
\* exactly the imported records of that language, each once, in the order of
\* the import; and no call is ever handed a record of another language.
C28_FetchByLanguage ==
    /\ Len(fstore) = Len(flines)
    /\ \A n \in 1..Len(fstore) :
          /\ fstore[n].lang = flines[n].lang_code
          /\ blob_to_word_entry(fstore[n].entry) = flines[n]
    /\ \A w \in FetchWorkers :
          /\ \A n \in 1..Len(fw[w].got) : fw[w].got[n].lang_code = fw[w].lang
          /\ fw[w].state = "done" =>
                fw[w].got = SelectSeq(flines, LAMBDA r : r.lang_code = fw[w].lang)

C28_Witness ==
    \E w \in FetchWorkers :
        /\ fw[w].state = "done"
        /\ fw[w].lang = "de"
        /\ Len(flines) = 3
        /\ flines[2].lang_code = "en"
        /\ fw[w].got = <<flines[1], flines[3]>>
        /\ flines[1] # flines[3]

(***************************************************************************)
(* Claims on the index (SpecIndex)                                         *)
(***************************************************************************)
\* C25: download_url returns the base URL followed by
\* /dict/<source>/<target>/<name>.zip?download=true; index_url returns a URL
\* made of the base URL and the name alone; the index holds one downloadUrl
\* and one indexUrl, and they are these two URLs.
C25_IndexUrls ==
    LET download == <<"https://huggingface.co/datasets/daxida/wty-release/resolve/main/latest",
                      "/dict/", isource, "/", itarget, "/", iname, ".zip?download=true">>
        index == <<"https://huggingface.co/datasets/daxida/wty-release/resolve/main/latest",
                   "/index/", iname, "-index.json?download=true">>
    IN  /\ iop = "download_url" => iout = download
        /\ iop = "index_url" => iout = index
        /\ iop = "get_index" =>
              /\ \E n \in 1..Len(iout) :
                    /\ iout[n] = <<"downloadUrl", download>>
                    /\ \A k \in 1..Len(iout) : iout[k][1] = "downloadUrl" => k = n
              /\ \E n \in 1..Len(iout) :
                    /\ iout[n] = <<"indexUrl", index>>
                    /\ \A k \in 1..Len(iout) : iout[k][1] = "indexUrl" => k = n

C25_Witness ==
    /\ iop = "get_index"
    /\ iname = "wty-afb-en-ipa"
    /\ isource = "afb"
    /\ itarget = "en"
    /\ iout[Len(iout)] =
          <<"downloadUrl",
            <<BASE_URL, "/dict/", "afb", "/", "en", "/", "wty-afb-en-ipa", ".zip?download=true">> >>

====
